---- MODULE Spec2Model ----
(***************************************************************************)
(* Resumable sharded ingestion pipeline of lewis-carson/cmhss:             *)
(*   download_events.py  - paginated listing of events                     *)
(*   download_prices.py  - one price history per CLOB token id             *)
(*   download_trades.py  - one trade log per condition id (top 10% volume) *)
(* One behaviour follows one of the three scripts (prog) over several      *)
(* runs of the process against the same output directory.                  *)
(*                                                                         *)
(* An identifier is a sequence of characters; a character is the number    *)
(* it stands for as a digit: 0..9 the decimal digits, 10..35 the letters   *)
(* a..z; 36 is ".", 37 is "_" and 38 is " ". A directory is [root, name],  *)
(* name the characters after the prefix "prices_" or "trades_".            *)
(***************************************************************************)
EXTENDS Integers, Sequences, FiniteSets, TLC

\* ------------------------------------------------------------------ bounds
MaxRuns == 2      \* runs of the process in one behaviour
MaxMarkets == 2   \* markets listed in the first event file
MaxPages == 2     \* full pages the upstream serves for one trades target
Max429 == 6       \* consecutive 429 responses to one request
PadMarkets == 18  \* zero-volume markets in the second event file, when present
MaxFilterMarkets == 100   \* longest list passed to filter_top_markets on its own
MaxFree == 2      \* leading markets of such a list whose volumes are free
MaxLines == 3     \* lines of no_data.txt when save_no_data_market runs on its own
MaxEventFiles == 2   \* event files when an enumerator runs on its own

\* ------------------------------------------------------- program constants
INITIAL_BACKOFF == 1
MAX_BACKOFF == 60
BACKOFF_MULTIPLIER == 2
SUBDIRECTORY_MOD == 1000
LIMIT == 100             \* download_events.py page size
TRADES_LIMIT == 500      \* download_trades.py page size
TRADES_MAX_BACKOFF == 60
TRADES_BACKOFF_MULTIPLIER == 2

\* ------------------------------------------------------------- input sets
SPACE == 38             \* the character " "
NoId == <<>>
IdA == <<5>>            \* "5"
IdB == <<1, 2, 3, 4>>   \* "1234": decimal 1234, hexadecimal 0x1234 = 4660
IdBad == <<35, 36, 19, 28, 24, 23>>   \* "z.json": neither decimal nor hexadecimal
PadId == <<0>>          \* "0": the identifier of the padding markets
Ids == {IdA, IdB, IdBad}
IdPadded == <<SPACE, 5>>   \* " 5": int() reads it as 5
\* the markets an event file of a trades run may list: one identifier with
\* either volume, the other two with one volume each
TradesListed == {<<IdA, 1>>, <<IdA, 2>>, <<IdB, 1>>, <<IdBad, 2>>}
ShortPage == 37         \* size of a short, non-empty page
EventTotals == {0, 37, 100, 237}   \* records the events endpoint holds

Min(a, b) == IF a < b THEN a ELSE b

\* ------------------------------------------------------------ int() parsing
ValueError == -1
\* what a call that raised ValueError stands for where a directory is expected
Raised == [root |-> "ValueError", name |-> <<>>]

\* positional value of the characters of s in the given base: upto[k] is
\* the value of the first k characters
Value(s, base) ==
    LET upto[k \in 0..Len(s)] == IF k = 0 THEN 0 ELSE upto[k - 1] * base + s[k]
    IN  upto[Len(s)]

\* s.strip(): s without its leading and trailing white space
Strip(s) ==
    LET kept == {k \in 1..Len(s) : s[k] # SPACE}
    IN  IF kept = {} THEN <<>>
        ELSE SubSeq(s, CHOOSE k \in kept : \A m \in kept : k <= m,
                       CHOOSE k \in kept : \A m \in kept : m <= k)

\* int(s, base): white space around the number is skipped; ValueError when
\* nothing is left or a character is not a digit of the base
ParseInt(s, base) ==
    CHOOSE int \in {IF digits # <<>> /\ \A k \in 1..Len(digits) : digits[k] < base
                       THEN Value(digits, base)
                       ELSE ValueError : digits \in {Strip(s)}} : TRUE

\* f"{n:03d}" as its characters (at least three digits, zero padded)
Format03(n) == <<(n \div 100) % 10, (n \div 10) % 10, n % 10>>

\* -------------------------------------------------------------- shard router
MiscDir == [root |-> "trades", name |-> <<22, 18, 28, 12>>]   \* trades_misc

\* a router that keeps the last two digits only
prices_get_subdirectory_mod100(market_id) ==
    LET n == ParseInt(market_id, 10)
    IN  IF n = ValueError THEN Raised
        ELSE [root |-> "prices", name |-> Format03(n % 100)]

\* download_prices.py get_subdirectory_for_market: the directory, or
\* Raised (int(market_id) raises ValueError, the function catches nothing)
prices_get_subdirectory_for_market(market_id) ==
    LET last_three_digits == ParseInt(market_id, 10)
    IN  IF last_three_digits = ValueError THEN Raised
        ELSE [root |-> "prices",
              name |-> Format03(last_three_digits % SUBDIRECTORY_MOD)]

\* download_trades.py get_subdirectory_for_market: ValueError leads to
\* the trades_misc directory
trades_get_subdirectory_for_market(market_id) ==
    LET market_int == ParseInt(market_id, 16)
    IN  IF market_int = ValueError THEN MiscDir
        ELSE [root |-> "trades",
              name |-> Format03(market_int % SUBDIRECTORY_MOD)]

\* ----------------------------------------------------------- work enumerator
\* A market of an event file: the fields the downloaders read.
Market(id, volume) ==
    [conditionId |-> id, clobTokenIds |-> <<id>>, volumeNum |-> volume]

\* An event file: the markets of its events in file order, or a text that
\* json.load cannot decode.
Decoded(ms) == [decodes |-> TRUE, markets |-> ms]
Malformed == [decodes |-> FALSE, markets |-> <<>>]

RECURSIVE Flatten(_)
\* the markets of the event files, in sorted file name order, each file's
\* events and markets in file order
Flatten(files) ==
    IF files = <<>> THEN <<>> ELSE Head(files).markets \o Flatten(Tail(files))

\* markets[token_id] = market on a dict kept as a sequence of entries in
\* insertion order: a known key keeps its position and takes the new value
DictSet(d, k, v) ==
    IF \E j \in 1..Len(d) : d[j].key = k
    THEN LET at == CHOOSE j \in 1..Len(d) : d[j].key = k
         IN  [d EXCEPT ![at] = [key |-> k, value |-> v]]
    ELSE Append(d, [key |-> k, value |-> v])

RECURSIVE DictSetAll(_, _, _)
\* for token_id in token_ids: markets[token_id] = market
DictSetAll(d, keys, v) ==
    IF keys = <<>> THEN d
    ELSE DictSetAll(DictSet(d, Head(keys), v), Tail(keys), v)

\* the loops of lines 66-76 over the markets ms, from the dict d: after[k] is
\* the dict after the first k markets
get_all_markets_from(d, ms) ==
    LET after[k \in 0..Len(ms)] ==
            IF k = 0 THEN d
            ELSE CHOOSE next \in {DictSetAll(prev, ms[k].clobTokenIds, ms[k]) :
                                  prev \in {after[k - 1]}} : TRUE
    IN  after[Len(ms)]

\* download_prices.py lines 63-64: json.load raises JSONDecodeError on a file
\* it cannot decode; no try encloses it
get_all_markets_raises(files) == \E j \in 1..Len(files) : ~files[j].decodes

\* download_prices.py get_all_markets when it returns: token id -> market, in
\* insertion order
get_all_markets(files) == get_all_markets_from(<<>>, Flatten(files))

\* download_trades.py get_all_markets_with_volume: one entry per market that
\* has a conditionId, duplicates kept; a file json.load cannot decode is
\* skipped (lines 52-54)
get_all_markets_with_volume(files) ==
    LET decoded == SelectSeq(files, LAMBDA file : file.decodes)
        ms == SelectSeq(Flatten(decoded), LAMBDA m : m.conditionId # NoId)
    IN  [j \in 1..Len(ms) |-> [conditionId |-> ms[j].conditionId,
                               volume |-> ms[j].volumeNum]]

\* sorted(markets, key=volume, reverse=True): before(j) markets are placed
\* before the j-th one, those of a larger volume and, the sort being stable,
\* those of the same volume that stand before it; rank is the tuple of these
\* numbers
SortByVolumeDesc(ms) ==
    LET before(j) ==
            Cardinality({k \in 1..Len(ms) :
                            \/ ms[k].volume > ms[j].volume
                            \/ ms[k].volume = ms[j].volume /\ k < j})
        placed(rank) ==
            [p \in 1..Len(ms) |-> ms[CHOOSE j \in 1..Len(ms) : rank[j] = p - 1]]
    IN  CHOOSE sorted \in {placed(rank) :
                              rank \in {<<>> \o [j \in 1..Len(ms) |-> before(j)]}} : TRUE

\* ---- count * percentile in IEEE-754 double arithmetic (line 63)
\* A number is a sequence of limbs of LIMB_BITS bits, least significant
\* first. The double 0.10 is 0x1999999999999A * 2^-56.
LIMB_BITS == 14
LIMB == 2 ^ LIMB_BITS
\* the 53-bit significand 0x1999999999999A of the double 0.10
PERCENTILE_SIG == <<6554, 9830, 6553, 1638>>
\* the limb of the product that holds the bit of weight 2^0:
\* the exponent of 0.10 is -56 = -(4 * LIMB_BITS)
PERCENTILE_UNIT_LIMB == 5
\* bits of the significand of a double
DOUBLE_BITS == 53

\* number of binary digits of x
BitLength(x) == CHOOSE b \in 0..31 : x < 2 ^ b /\ (b = 0 \/ x >= 2 ^ (b - 1))

\* five limbs, the first four possibly too large, carried into the next ones
Normalize(t) ==
    LET v1 == t[1]
        v2 == t[2] + v1 \div LIMB
        v3 == t[3] + v2 \div LIMB
        v4 == t[4] + v3 \div LIMB
        v5 == t[5] + v4 \div LIMB
    IN  <<v1 % LIMB, v2 % LIMB, v3 % LIMB, v4 % LIMB, v5>>

\* the exact product of the significand and count (count < LIMB)
TimesSig(count) ==
    Normalize(<<PERCENTILE_SIG[1] * count, PERCENTILE_SIG[2] * count,
                PERCENTILE_SIG[3] * count, PERCENTILE_SIG[4] * count, 0>>)

\* the exact product rounded to a double: DOUBLE_BITS significant bits, ties
\* to even (the bits dropped lie in the first limb)
RoundToDouble(t) ==
    LET top == CHOOSE k \in 1..5 : t[k] # 0 /\ \A m \in (k + 1)..5 : t[m] = 0
        length == LIMB_BITS * (top - 1) + BitLength(t[top])
        drop == length - DOUBLE_BITS
        rest == t[1] % (2 ^ drop)
        half == 2 ^ (drop - 1)
        up == rest > half \/ (rest = half /\ (t[1] \div 2 ^ drop) % 2 = 1)
    IN  IF drop <= 0 THEN t
        ELSE Normalize([t EXCEPT ![1] = t[1] - rest + (IF up THEN 2 ^ drop ELSE 0)])

\* int(count * percentile): the double product, truncated
IntOfTimesPercentile(count) ==
    CHOOSE int \in {RoundToDouble(product)[PERCENTILE_UNIT_LIMB] :
                       product \in {TimesSig(c) : c \in {count}}} : TRUE

\* a filter without the "at least one market" rule of lines 65-66
filter_top_markets_no_minimum(ms) ==
    IF ms = <<>> THEN <<>>
    ELSE LET sorted_markets == SortByVolumeDesc(ms)
         IN  SubSeq(sorted_markets, 1, IntOfTimesPercentile(Len(sorted_markets)))

\* download_trades.py filter_top_markets with percentile = 0.10
filter_top_markets(ms) ==
    IF ms = <<>> THEN <<>>
    ELSE LET sorted_markets == SortByVolumeDesc(ms)
             count == Len(sorted_markets)
             cut == IntOfTimesPercentile(count)
             cutoff_index == IF cut = 0 /\ count > 0 THEN 1 ELSE cut
         IN  SubSeq(sorted_markets, 1, cutoff_index)

SeqRange(s) == {s[j] : j \in 1..Len(s)}

\* ------------------------------------------------------------- file names
PRICES_PREFIX == <<25, 27, 18, 12, 14, 28, 37>>    \* "prices_"
TRADES_PREFIX == <<29, 27, 10, 13, 14, 28, 37>>    \* "trades_"
JSON_SUFFIX == <<36, 19, 28, 24, 23>>              \* ".json"
JSON_GZ_SUFFIX == <<36, 19, 28, 24, 23, 36, 16, 35>>   \* ".json.gz"

\* s.startswith(t), s.endswith(t)
StartsWith(s, t) == Len(t) <= Len(s) /\ SubSeq(s, 1, Len(t)) = t
EndsWith(s, t) == Len(t) <= Len(s) /\ SubSeq(s, Len(s) - Len(t) + 1, Len(s)) = t

\* s.replace(t, ""): every occurrence of t is removed, from left to right;
\* from[k] is what is left of s[k..]
Replace(s, t) ==
    LET from[k \in 1..(Len(s) + 1)] ==
            IF k > Len(s) THEN <<>>
            ELSE IF k + Len(t) - 1 <= Len(s) /\ SubSeq(s, k, k + Len(t) - 1) = t
                 THEN from[k + Len(t)]
                 ELSE <<s[k]>> \o from[k + 1]
    IN  from[1]

\* download_prices.py line 152: f"prices_{market_id}.json"
prices_output_name(market_id) == PRICES_PREFIX \o market_id \o JSON_SUFFIX

\* download_trades.py line 92: f"trades_{condition_id}.json.gz"
trades_output_name(condition_id) == TRADES_PREFIX \o condition_id \o JSON_GZ_SUFFIX

\* download_prices.py lines 92-94 and 95-97: the identifiers of the names
\* that look like an output file, one replace() after the other
prices_market_ids(names) ==
    LET matching == {n \in names : StartsWith(n, PRICES_PREFIX) /\ EndsWith(n, JSON_SUFFIX)}
        unprefixed == {Replace(filename, PRICES_PREFIX) : filename \in matching}
    IN  {Replace(rest, JSON_SUFFIX) : rest \in unprefixed}

\* download_trades.py lines 78-80
trades_market_ids(names) ==
    LET matching == {n \in names : /\ StartsWith(n, TRADES_PREFIX)
                                   /\ \/ EndsWith(n, JSON_SUFFIX)
                                      \/ EndsWith(n, JSON_GZ_SUFFIX)}
        unprefixed == {Replace(filename, TRADES_PREFIX) : filename \in matching}
        ungzipped == {Replace(rest, JSON_GZ_SUFFIX) : rest \in unprefixed}
    IN  {Replace(rest, JSON_SUFFIX) : rest \in ungzipped}

\* ------------------------------------------------------------ progress store
\* The output directory: files (the files in shard subdirectories, each
\* [dir, id, recs, complete], id the identifier its name was built from),
\* flat (identifiers with a legacy file prices_{id}.json or trades_{id}.json
\* directly under the root), subdirs (the directories that exist) and noData
\* (the lines of no_data.txt, each without its line end).

\* download_prices.py get_already_processed_markets
prices_get_already_processed_markets(fs, fl, nd) ==
    prices_market_ids({prices_output_name(f.id) : f \in {g \in fs : g.dir.root = "prices"}})
        \cup prices_market_ids({prices_output_name(x) : x \in fl})
        \cup ({Strip(x) : x \in SeqRange(nd)} \ {NoId})

\* download_trades.py get_already_processed_markets: no legacy flat files,
\* and every line of no_data.txt, an empty one included
trades_get_already_processed_markets(fs, fl, nd) ==
    trades_market_ids({trades_output_name(f.id) : f \in {g \in fs : g.dir.root = "trades"}})
        \cup {Strip(x) : x \in SeqRange(nd)}

\* a write that leaves its file alone in the output directory
PutFile_alone(fs, dir, id, recs, complete) ==
    {[dir |-> dir, id |-> id, recs |-> recs, complete |-> complete]}

\* The file of identifier id in directory dir takes the given content
\* (open(..., "w") creates or truncates; later writes replace the content).
PutFile(fs, dir, id, recs, complete) ==
    {f \in fs : ~(f.dir = dir /\ f.id = id)}
        \cup {[dir |-> dir, id |-> id, recs |-> recs, complete |-> complete]}

HasFile(fs, id) == \E f \in fs : f.id = id

\* a driver that does not subtract the done-set
markets_to_process_unfiltered(top_markets, processed_markets) == top_markets

\* download_trades.py main, line 170
markets_to_process(top_markets, processed_markets) ==
    SelectSeq(top_markets, LAMBDA m : m.conditionId \notin processed_markets)

\* an error path that deletes the partial file
FilesAfterAbort_removed(fs, dir, id, recs) ==
    {f \in fs : ~(f.dir = dir /\ f.id = id)}

\* download_trades.py lines 147-149: return None inside the with block closes
\* the stream; the file stays where it is, without its closing bracket
FilesAfterAbort(fs, dir, id, recs) == PutFile(fs, dir, id, recs, FALSE)

\* a marker file opened with "w": the earlier lines are lost
save_no_data_market_truncating(nd, market_id) == <<market_id>>

\* download_prices.py save_no_data_market: one line appended to no_data.txt
save_no_data_market(nd, market_id) == Append(nd, market_id)

\* a resume point that is the highest existing index itself
get_current_state_at_last(existing) ==
    IF existing = {} THEN [offset |-> 0, file_index |-> 0]
    ELSE LET max_index == CHOOSE m \in {f.index : f \in existing} :
                              \A f \in existing : f.index <= m
         IN  [offset |-> max_index * LIMIT, file_index |-> max_index]

\* download_events.py get_current_state: (offset, file_index)
get_current_state(existing) ==
    IF existing = {} THEN [offset |-> 0, file_index |-> 0]
    ELSE LET max_index == CHOOSE m \in {f.index : f \in existing} :
                              \A f \in existing : f.index <= m
             next_file_index == max_index + 1
         IN  [offset |-> next_file_index * LIMIT, file_index |-> next_file_index]

\* download_prices.py lines 186-191: the 429 branch sleeps for backoff and
\* grows the local of this call (line 189); the retry (line 191) is a new call
\* of download_prices_for_market, whose own local starts again at
\* INITIAL_BACKOFF (line 148)
\* (line 148): the value the next sleep of this target uses does not depend on b
prices_backoff_after_429(b) == INITIAL_BACKOFF

\* a backoff that doubles without the ceiling
trades_backoff_uncapped(b) == b * TRADES_BACKOFF_MULTIPLIER

\* download_trades.py line 120
trades_backoff_after_429(b) == Min(b * TRADES_BACKOFF_MULTIPLIER, TRADES_MAX_BACKOFF)

\* an offset that counts pages instead of records
trades_next_offset_by_one(off) == off + 1

\* download_trades.py line 144: offset += limit
trades_next_offset(off) == off + TRADES_LIMIT

\* a driver loop that takes up the same target again
next_target_same(j) == j

\* the for loops of download_prices.py line 208 and download_trades.py line
\* 173 go on to the next position
next_target(j) == j + 1

\* ---------------------------------------------------------------- the state
VARIABLES
    prog,              \* the script, or the function, this behaviour runs
    callArg, callRes,  \* argument and result of a function run on its own
    listed,            \* the markets of events_0000.json, in order
    padded,            \* whether events_0001.json (PadMarkets padding markets) exists
    upstreamEvents,    \* records the events endpoint holds (unchanged upstream)
    files, flat, subdirs, noData,   \* the output directory (prices or trades)
    evFiles,           \* events_NNNN.json files: [index, offset, size]
    pc,                \* position of the process
    run,               \* number of the current run
    targets,           \* the identifiers enumerated at startup
    already_processed, \* the done-set scanned at startup
    queue,             \* the identifiers the driver loop iterates over
    i,                 \* position of the driver loop in queue
    cur,               \* the target being processed, or last processed
    backoff, offset, file_index, total,   \* locals of the page walk
    pages,             \* sizes of the pages returned in this walk
    consec429,         \* consecutive 429 responses to the current request
    lastSleep,         \* duration of the last backoff sleep of this target
    outcome,           \* how the last page walk ended
    fetched,           \* identifiers a request was issued for in this run
    runHadError,       \* a fetch of this run ended in a fatal error
    prevClean,         \* the previous run ran to its end without fatal error
    everDone           \* identifiers in the done-set when a run ended or began

vars == <<prog, callArg, callRes, listed, padded, upstreamEvents, files, flat, subdirs, noData, evFiles,
          pc, run, targets, already_processed, queue, i, cur, backoff, offset,
          file_index, total, pages, consec429, lastSleep, outcome, fetched, runHadError,
          prevClean, everDone>>

input == <<prog, callArg, callRes, listed, padded, upstreamEvents>>
disk == <<files, flat, subdirs, noData, evFiles>>
walk == <<backoff, offset, file_index, total, pages, consec429, lastSleep>>
hist == <<runHadError, prevClean, everDone>>

\* the done-set a scan of the output directory returns now
ScanDone ==
    IF prog = "prices" THEN prices_get_already_processed_markets(files, flat, noData)
    ELSE IF prog = "trades" THEN trades_get_already_processed_markets(files, flat, noData)
    ELSE {}

MarketLists(S) == UNION {[1..n -> S] : n \in 0..MaxMarkets}

PadFile == [j \in 1..PadMarkets |-> Market(PadId, 0)]

\* the event files the enumerators read, in sorted file name order
eventFiles == IF padded THEN <<Decoded(listed), Decoded(PadFile)>> ELSE <<Decoded(listed)>>

InitEvents ==
    /\ prog = "events"
    /\ listed = <<>>
    /\ padded = FALSE
    /\ upstreamEvents \in EventTotals
    /\ flat = {}
    /\ noData = <<>>

InitPrices ==
    /\ prog = "prices"
    /\ listed \in MarketLists({Market(x, 1) : x \in Ids})
    /\ padded \in BOOLEAN
    /\ upstreamEvents = 0
    /\ \/ flat = {} /\ noData = <<>>
       \/ flat = {IdB} /\ noData = <<>>
       \/ flat = {} /\ noData = <<IdA>>

InitTrades ==
    /\ prog = "trades"
    /\ listed \in MarketLists({Market(m[1], m[2]) : m \in TradesListed})
    /\ padded \in BOOLEAN
    /\ upstreamEvents = 0
    /\ flat = {}
    /\ noData \in {<<>>, <<IdA>>}

\* no process has run yet: an empty output directory, fresh locals
InitProcess ==
    /\ files = {}
    /\ subdirs = {}
    /\ evFiles = {}
    /\ pc = "start"
    /\ run = 1
    /\ targets = {}
    /\ already_processed = {}
    /\ queue = <<>>
    /\ i = 1
    /\ cur = NoId
    /\ backoff = INITIAL_BACKOFF
    /\ offset = 0
    /\ file_index = 0
    /\ total = 0
    /\ pages = <<>>
    /\ consec429 = 0
    /\ lastSleep = 0
    /\ outcome = "none"
    /\ fetched = {}
    /\ runHadError = FALSE
    /\ prevClean = FALSE
    /\ everDone = {}

Init ==
    /\ InitEvents \/ InitPrices \/ InitTrades
    /\ callArg = <<>>
    /\ callRes = <<>>
    /\ InitProcess

\* --------------------------------------------------------------- the driver
\* prices, lines 199-205: enumerate the markets, scan the output directory
PricesStart ==
    /\ pc = "start" /\ prog = "prices"
    /\ ~get_all_markets_raises(eventFiles)
    /\ \E markets \in {get_all_markets(eventFiles)} :
           /\ queue' = [j \in 1..Len(markets) |-> markets[j].key]
           /\ targets' = {markets[j].key : j \in 1..Len(markets)}
    /\ already_processed' = prices_get_already_processed_markets(files, flat, noData)
    /\ everDone' = everDone \cup ScanDone
    /\ i' = 1
    /\ pc' = "loop"
    /\ UNCHANGED <<input, disk, walk, run, cur, outcome, fetched, runHadError,
                   prevClean>>

\* trades, main lines 160-171
TradesStart ==
    /\ pc = "start" /\ prog = "trades"
    /\ \E all_markets \in {get_all_markets_with_volume(eventFiles)} :
       \E top_markets \in {filter_top_markets(all_markets)} :
       \E processed_markets \in {trades_get_already_processed_markets(files, flat, noData)} :
       \E todo \in {markets_to_process(top_markets, processed_markets)} :
           /\ targets' = {top_markets[j].conditionId : j \in 1..Len(top_markets)}
           /\ already_processed' = processed_markets
           /\ queue' = [j \in 1..Len(todo) |-> todo[j].conditionId]
    /\ everDone' = everDone \cup ScanDone
    /\ i' = 1
    /\ pc' = "loop"
    /\ UNCHANGED <<input, disk, walk, run, cur, outcome, fetched, runHadError,
                   prevClean>>

\* the driver loop has no target left
LoopEnd ==
    /\ pc = "loop" /\ i > Len(queue)
    /\ pc' = "done"
    /\ UNCHANGED <<input, disk, walk, run, targets, already_processed, queue, i,
                   cur, outcome, fetched, hist>>

\* ------------------------------------------------------- download_prices.py
\* lines 210-212: a market of the done-set is skipped
PricesSkip ==
    /\ pc = "loop" /\ prog = "prices" /\ i <= Len(queue)
    /\ queue[i] \in already_processed
    /\ i' = next_target(i)
    /\ UNCHANGED <<input, disk, walk, pc, run, targets, already_processed, queue,
                   cur, outcome, fetched, hist>>

\* lines 215, 147-160: the call of download_prices_for_market up to the request
PricesBegin ==
    /\ pc = "loop" /\ prog = "prices" /\ i <= Len(queue)
    /\ queue[i] \notin already_processed
    /\ prices_get_subdirectory_for_market(queue[i]) # Raised
    /\ cur' = queue[i]
    /\ subdirs' = subdirs \cup {prices_get_subdirectory_for_market(queue[i])}
    /\ backoff' = INITIAL_BACKOFF
    /\ total' = 0
    /\ pages' = <<>>
    /\ consec429' = 0
    /\ lastSleep' = 0
    /\ outcome' = "none"
    /\ pc' = "request"
    /\ UNCHANGED <<input, files, flat, noData, evFiles, run, targets,
                   already_processed, queue, i, offset, file_index, fetched, hist>>

\* lines 151 and 157: int(market_id) raises ValueError, which nothing catches:
\* the process ends with the traceback
PricesBadId ==
    /\ pc = "loop" /\ prog = "prices" /\ i <= Len(queue)
    /\ queue[i] \notin already_processed
    /\ prices_get_subdirectory_for_market(queue[i]) = Raised
    /\ cur' = queue[i]
    /\ outcome' = "none"
    /\ pc' = "crashed"
    /\ UNCHANGED <<input, disk, walk, run, targets, already_processed, queue, i,
                   fetched, hist>>

\* lines 164-165, 185-191: the request is answered 429
Prices429 ==
    /\ pc = "request" /\ prog = "prices"
    /\ consec429 < Max429
    /\ fetched' = fetched \cup {cur}
    /\ consec429' = consec429 + 1
    /\ lastSleep' = backoff
    /\ backoff' = prices_backoff_after_429(backoff)
    /\ UNCHANGED <<input, disk, pc, run, targets, already_processed, queue, i, cur,
                   offset, file_index, total, pages, outcome, hist>>

\* lines 192-197: another HTTP error status, or a transport failure
PricesError ==
    /\ pc = "request" /\ prog = "prices"
    /\ fetched' = fetched \cup {cur}
    /\ outcome' = "error"
    /\ runHadError' = TRUE
    /\ i' = next_target(i)
    /\ pc' = "loop"
    /\ backoff' = INITIAL_BACKOFF /\ consec429' = 0 /\ lastSleep' = 0
    /\ UNCHANGED <<input, disk, run, targets, already_processed, queue, cur, offset,
                   file_index, total, pages, prevClean, everDone>>

\* lines 168-175: a response without history: save_no_data_market
PricesEmpty ==
    /\ pc = "request" /\ prog = "prices"
    /\ fetched' = fetched \cup {cur}
    /\ backoff' = INITIAL_BACKOFF
    /\ consec429' = 0 /\ lastSleep' = 0
    /\ pages' = Append(pages, 0)
    /\ noData' = save_no_data_market(noData, cur)
    /\ outcome' = "empty"
    /\ i' = next_target(i)
    /\ pc' = "loop"
    /\ UNCHANGED <<input, files, flat, subdirs, evFiles, run, targets,
                   already_processed, queue, cur, offset, file_index, total, hist>>

\* lines 168-176: a response with n price points
PricesData ==
    /\ pc = "request" /\ prog = "prices"
    /\ fetched' = fetched \cup {cur}
    /\ backoff' = INITIAL_BACKOFF
    /\ consec429' = 0 /\ lastSleep' = 0
    /\ \E n \in {ShortPage} :
           /\ pages' = Append(pages, n)
           /\ total' = n
    /\ pc' = "write"
    /\ UNCHANGED <<input, disk, run, targets, already_processed, queue, i, cur,
                   offset, file_index, outcome, hist>>

\* line 178: open(output_file, "w") creates or truncates the file
PricesOpen ==
    /\ pc = "write" /\ prog = "prices"
    /\ files' = PutFile(files, prices_get_subdirectory_for_market(cur), cur, 0, FALSE)
    /\ pc' = "dump"
    /\ UNCHANGED <<input, flat, subdirs, noData, evFiles, walk, run, targets,
                   already_processed, queue, i, cur, outcome, fetched, hist>>

\* lines 179-183: json.dump and the close of the file
PricesDump ==
    /\ pc = "dump" /\ prog = "prices"
    /\ files' = PutFile(files, prices_get_subdirectory_for_market(cur), cur, total, TRUE)
    /\ outcome' = "data"
    /\ i' = next_target(i)
    /\ pc' = "loop"
    /\ UNCHANGED <<input, flat, subdirs, noData, evFiles, walk, run, targets,
                   already_processed, queue, cur, fetched, hist>>

\* lines 178-179: open or write raises an OSError; the except clauses of
\* lines 185 and 194 name requests exceptions only, so the process ends
PricesIOError ==
    /\ pc \in {"write", "dump"} /\ prog = "prices"
    /\ outcome' = "ioerror"
    /\ pc' = "crashed"
    /\ UNCHANGED <<input, disk, walk, run, targets, already_processed, queue, i,
                   cur, fetched, hist>>

\* ------------------------------------------------------- download_trades.py
\* lines 177, 91-102: the call of download_and_save_trades up to the loop;
\* gzip.open(filename, 'wt') creates or truncates the output file
TradesBegin ==
    /\ pc = "loop" /\ prog = "trades" /\ i <= Len(queue)
    /\ cur' = queue[i]
    /\ subdirs' = subdirs \cup {trades_get_subdirectory_for_market(queue[i])}
    /\ files' = PutFile(files, trades_get_subdirectory_for_market(queue[i]),
                        queue[i], 0, FALSE)
    /\ offset' = 0
    /\ backoff' = 1
    /\ total' = 0
    /\ pages' = <<>>
    /\ consec429' = 0
    /\ lastSleep' = 0
    /\ outcome' = "none"
    /\ pc' = "request"
    /\ UNCHANGED <<input, flat, noData, evFiles, run, targets, already_processed,
                   queue, i, file_index, fetched, hist>>

\* lines 115-121: the request is answered 429
Trades429 ==
    /\ pc = "request" /\ prog = "trades"
    /\ consec429 < Max429
    /\ fetched' = fetched \cup {cur}
    /\ consec429' = consec429 + 1
    /\ lastSleep' = backoff
    /\ backoff' = trades_backoff_after_429(backoff)
    /\ UNCHANGED <<input, disk, pc, run, targets, already_processed, queue, i, cur,
                   offset, file_index, total, pages, outcome, hist>>

\* lines 123, 147-149: another HTTP error status, or a transport failure
TradesError ==
    /\ pc = "request" /\ prog = "trades"
    /\ fetched' = fetched \cup {cur}
    /\ files' = FilesAfterAbort(files, trades_get_subdirectory_for_market(cur),
                                cur, total)
    /\ outcome' = "error"
    /\ runHadError' = TRUE
    /\ i' = next_target(i)
    /\ pc' = "loop"
    /\ backoff' = 1 /\ consec429' = 0 /\ lastSleep' = 0
    /\ UNCHANGED <<input, flat, subdirs, noData, evFiles, run, targets,
                   already_processed, queue, cur, offset, file_index, total, pages,
                   prevClean, everDone>>

\* a page write that replaces what the stream holds
trades_records_written_last_page(written, n) == n

\* lines 131-136: each trade of the page is dumped to the open stream, after
\* the written records of the earlier pages
trades_records_written(written, n) == written + n

\* a walk that stops at an empty page only
trades_continues_until_empty(n) == n # 0

\* the walk goes on after a page of n records (lines 128-129, 141-142)
trades_continues(n) == n # 0 /\ ~(n < TRADES_LIMIT)

\* lines 123-145, 151: a page of n records is returned and written
TradesPage ==
    /\ pc = "request" /\ prog = "trades"
    /\ \E n \in {0, ShortPage, TRADES_LIMIT} :
        /\ n = TRADES_LIMIT => Len(pages) < MaxPages
        /\ fetched' = fetched \cup {cur}
        /\ backoff' = 1
        /\ consec429' = 0
        /\ lastSleep' = 0
        /\ pages' = Append(pages, n)
        /\ total' = total + n
        /\ files' = PutFile(files, trades_get_subdirectory_for_market(cur), cur,
                            trades_records_written(total, n), ~trades_continues(n))
        /\ IF trades_continues(n)
           THEN /\ offset' = trades_next_offset(offset)
                /\ UNCHANGED <<pc, i, outcome>>
           ELSE /\ outcome' = IF n = 0 /\ pages = <<>> THEN "empty" ELSE "data"
                /\ i' = next_target(i)
                /\ pc' = "loop"
                /\ UNCHANGED offset
    /\ UNCHANGED <<input, flat, subdirs, noData, evFiles, run, targets,
                   already_processed, queue, cur, file_index, hist>>

\* lines 131-136, 153-155: a page is returned and writing it raises IOError
TradesIOError ==
    /\ pc = "request" /\ prog = "trades"
    /\ \E n \in {ShortPage, TRADES_LIMIT} :
        /\ n = TRADES_LIMIT => Len(pages) < MaxPages
        /\ pages' = Append(pages, n)
    /\ fetched' = fetched \cup {cur}
    /\ backoff' = 1
    /\ consec429' = 0
    /\ lastSleep' = 0
    /\ files' = FilesAfterAbort(files, trades_get_subdirectory_for_market(cur),
                                cur, total)
    /\ outcome' = "ioerror"
    /\ i' = next_target(i)
    /\ pc' = "loop"
    /\ UNCHANGED <<input, flat, subdirs, noData, evFiles, run, targets,
                   already_processed, queue, cur, offset, file_index, total, hist>>

\* ------------------------------------------------------- download_events.py
\* the page the unchanged upstream serves at an offset
EventsPageAt(off) ==
    IF upstreamEvents - off >= LIMIT THEN LIMIT
    ELSE IF upstreamEvents - off > 0 THEN upstreamEvents - off ELSE 0

\* line 33
EventsStart ==
    /\ pc = "start" /\ prog = "events"
    /\ offset' = get_current_state(evFiles).offset
    /\ file_index' = get_current_state(evFiles).file_index
    /\ total' = 0
    /\ pages' = <<>>
    /\ outcome' = "none"
    /\ pc' = "request"
    /\ UNCHANGED <<input, disk, run, targets, already_processed, queue, i, cur,
                   backoff, consec429, lastSleep, fetched, hist>>

\* lines 44-68: a page is returned; a non-empty one is written to the next file
EventsPage ==
    /\ pc = "request" /\ prog = "events"
    /\ LET n == EventsPageAt(offset)
       IN  /\ pages' = Append(pages, n)
           /\ IF n = 0
              THEN /\ outcome' = IF pages = <<>> THEN "empty" ELSE "data"
                   /\ pc' = "done"
                   /\ UNCHANGED <<evFiles, offset, file_index, total>>
              ELSE /\ evFiles' = {f \in evFiles : f.index # file_index}
                            \cup {[index |-> file_index, offset |-> offset, size |-> n]}
                   /\ total' = total + n
                   /\ offset' = offset + LIMIT
                   /\ file_index' = file_index + 1
                   /\ IF n < LIMIT
                      THEN outcome' = "data" /\ pc' = "done"
                      ELSE UNCHANGED <<outcome, pc>>
    /\ UNCHANGED <<input, files, flat, subdirs, noData, run, targets,
                   already_processed, queue, i, cur, backoff, consec429, lastSleep,
                   fetched, hist>>

\* lines 45, 70-73: an HTTP error status (429 included) or a transport failure
EventsError ==
    /\ pc = "request" /\ prog = "events"
    /\ outcome' = "error"
    /\ runHadError' = TRUE
    /\ pc' = "done"
    /\ UNCHANGED <<input, disk, walk, run, targets, already_processed, queue, i,
                   cur, fetched, prevClean, everDone>>

\* --------------------------------------------------------- the environment
\* the process is killed while a target is in flight
Kill ==
    /\ pc \in {"request", "write", "dump"}
    /\ pc' = "killed"
    /\ UNCHANGED <<input, disk, walk, run, targets, already_processed, queue, i,
                   cur, outcome, fetched, hist>>

\* the operator starts the script again
Restart ==
    /\ pc \in {"done", "crashed", "killed"}
    /\ run < MaxRuns
    /\ run' = run + 1
    /\ prevClean' = (pc = "done" /\ ~runHadError)
    /\ runHadError' = FALSE
    /\ everDone' = everDone \cup ScanDone
    /\ targets' = {}
    /\ already_processed' = {}
    /\ queue' = <<>>
    /\ i' = 1
    /\ cur' = NoId
    /\ backoff' = INITIAL_BACKOFF
    /\ offset' = 0
    /\ file_index' = 0
    /\ total' = 0
    /\ pages' = <<>>
    /\ consec429' = 0
    /\ lastSleep' = 0
    /\ outcome' = "none"
    /\ fetched' = {}
    /\ pc' = "start"
    /\ UNCHANGED <<input, disk>>

Next ==
    \/ PricesStart \/ TradesStart \/ EventsStart
    \/ LoopEnd
    \/ PricesSkip \/ PricesBegin \/ PricesBadId
    \/ Prices429 \/ PricesError \/ PricesEmpty \/ PricesData
    \/ PricesOpen \/ PricesDump \/ PricesIOError
    \/ TradesBegin \/ Trades429 \/ TradesError \/ TradesPage \/ TradesIOError
    \/ EventsPage \/ EventsError
    \/ Kill \/ Restart

Spec == Init /\ [][Next]_vars

\* ------------------------------------------------------ a run on its own
\* A step the process takes once its request was answered by something other
\* than 429: requests.get returns or raises, the interpreter runs the next
\* statement.
Answered ==
    \/ PricesStart \/ TradesStart \/ EventsStart
    \/ LoopEnd
    \/ PricesSkip \/ PricesBegin \/ PricesBadId
    \/ PricesError \/ PricesEmpty \/ PricesData
    \/ PricesOpen \/ PricesDump \/ PricesIOError
    \/ TradesBegin \/ TradesError \/ TradesPage \/ TradesIOError
    \/ EventsPage \/ EventsError

\* one run of a script that nobody kills: the upstream answers each request
\* with 429 or with something else
RunNext == Answered \/ Prices429 \/ Trades429

\* every request is eventually answered by a response that is not 429, and
\* the interpreter does not stop between two statements
FairSpec == Init /\ [][RunNext]_vars /\ WF_vars(Answered)

\* ------------------------------------------- the prices store from empty
\* Runs of download_prices.py that start with an empty prices/ directory,
\* over token ids that include one with white space around its digits.
InitPricesStore ==
    /\ prog = "prices"
    /\ listed \in MarketLists({Market(x, 1) : x \in Ids \cup {IdPadded}})
    /\ padded = FALSE
    /\ upstreamEvents = 0
    /\ flat = {}
    /\ noData = <<>>
    /\ callArg = <<>>
    /\ callRes = <<>>
    /\ InitProcess

PricesNext ==
    \/ PricesStart
    \/ LoopEnd
    \/ PricesSkip \/ PricesBegin \/ PricesBadId
    \/ Prices429 \/ PricesError \/ PricesEmpty \/ PricesData
    \/ PricesOpen \/ PricesDump \/ PricesIOError
    \/ Kill \/ Restart

PricesSpec == InitPricesStore /\ [][PricesNext]_vars

\* ------------------------------------------- functions run on their own
\* A behaviour of CallSpec runs one function of the scripts on arguments
\* drawn from bounded sets: callArg is the argument, callRes the result.

\* no script runs: no event file, an empty output directory
InitNoScript ==
    /\ listed = <<>>
    /\ padded = FALSE
    /\ upstreamEvents = 0
    /\ flat = {}
    /\ noData = <<>>
    /\ InitProcess

\* ---- filter_top_markets
\* the n-th market of a list: its conditionId is n in three decimal digits
NthMarket(n, volume) == [conditionId |-> Format03(n), volume |-> volume]

\* volumes the next market of the list may have: any of 1..3 for the first
\* MaxFree markets; after them the list goes on as it started to, with
\* zero-volume markets or with volumes that are each a new maximum
NextVolumes(ms) ==
    IF Len(ms) < MaxFree THEN {1, 2, 3}
    ELSE IF Len(ms) = MaxFree THEN {0, Len(ms) + 4}
    ELSE IF ms[Len(ms)].volume = 0 THEN {0}
    ELSE {Len(ms) + 4}

InitFilter ==
    /\ prog = "filter"
    /\ callArg = <<>>
    /\ callRes = <<>>
    /\ InitNoScript

\* download_trades.py line 164 on the list callArg
FilterCall ==
    /\ prog = "filter" /\ pc = "start"
    /\ callRes' = filter_top_markets(callArg)
    /\ pc' = "done"
    /\ UNCHANGED <<prog, callArg, listed, padded, upstreamEvents, disk, walk, run,
                   targets, already_processed, queue, i, cur, outcome, fetched, hist>>

\* the next argument: the list with one more market
FilterExtend ==
    /\ prog = "filter" /\ pc = "done"
    /\ Len(callArg) < MaxFilterMarkets
    /\ \E v \in NextVolumes(callArg) :
           callArg' = Append(callArg, NthMarket(Len(callArg) + 1, v))
    /\ callRes' = <<>>
    /\ pc' = "start"
    /\ UNCHANGED <<prog, listed, padded, upstreamEvents, disk, walk, run,
                   targets, already_processed, queue, i, cur, outcome, fetched, hist>>

\* ---- get_already_processed_markets and save_no_data_market
\* the complete output file of an identifier, where its downloader puts it
OutputFile(id) ==
    [dir |-> IF prog = "prices" THEN prices_get_subdirectory_for_market(id)
             ELSE trades_get_subdirectory_for_market(id),
     id |-> id, recs |-> ShortPage, complete |-> TRUE]

\* an output directory as earlier runs may have left it: output files in
\* their shard directories, a legacy file under the root, a marker line
InitStore ==
    /\ prog \in {"prices", "trades"}
    /\ listed = <<>>
    /\ padded = FALSE
    /\ upstreamEvents = 0
    /\ \E S \in SUBSET (IF prog = "prices" THEN {IdA, IdB} ELSE Ids) :
           /\ files = {OutputFile(x) : x \in S}
           /\ subdirs = {OutputFile(x).dir : x \in S}
    /\ flat \in SUBSET {IdB}
    /\ noData \in {<<>>, <<IdA>>}
    /\ evFiles = {}
    /\ callArg = <<>>
    /\ callRes = {}
    /\ pc = "start"
    /\ run = 1
    /\ targets = {}
    /\ already_processed = {}
    /\ queue = <<>>
    /\ i = 1
    /\ cur = NoId
    /\ backoff = INITIAL_BACKOFF
    /\ offset = 0
    /\ file_index = 0
    /\ total = 0
    /\ pages = <<>>
    /\ consec429 = 0
    /\ lastSleep = 0
    /\ outcome = "none"
    /\ fetched = {}
    /\ runHadError = FALSE
    /\ prevClean = FALSE
    /\ everDone = {}

\* get_already_processed_markets() on the directory as it is
StoreScan ==
    /\ prog \in {"prices", "trades"} /\ pc = "start"
    /\ callRes' = ScanDone
    /\ pc' = "done"
    /\ UNCHANGED <<prog, callArg, listed, padded, upstreamEvents, disk, walk, run,
                   targets, already_processed, queue, i, cur, outcome, fetched, hist>>

\* save_no_data_market(market_id), whether or not the identifier has a line
StoreMark ==
    /\ prog = "prices" /\ pc = "done"
    /\ Len(noData) < MaxLines
    /\ \E market_id \in {IdA, IdB} :
           /\ noData' = save_no_data_market(noData, market_id)
           /\ callArg' = market_id
    /\ callRes' = {}
    /\ pc' = "start"
    /\ UNCHANGED <<prog, listed, padded, upstreamEvents, files, flat, subdirs,
                   evFiles, walk, run, targets, already_processed, queue, i, cur,
                   outcome, fetched, hist>>

\* ---- get_all_markets and get_all_markets_with_volume
\* the markets an event file may list: one identifier twice, with different
\* data, and another identifier
EnumMarkets == {Market(IdA, 1), Market(IdA, 2), Market(IdB, 1)}

\* an event file: up to MaxMarkets markets, or undecodable text
EnumFiles == {Decoded(ms) : ms \in MarketLists(EnumMarkets)} \cup {Malformed}

\* the event files, in sorted file name order
InitEnumerate ==
    /\ prog \in {"get_all_markets", "get_all_markets_with_volume"}
    /\ callArg \in UNION {[1..n -> EnumFiles] : n \in 0..MaxEventFiles}
    /\ callRes = <<>>
    /\ InitNoScript

\* the enumerator returns
EnumCall ==
    /\ pc = "start"
    /\ \/ /\ prog = "get_all_markets"
          /\ ~get_all_markets_raises(callArg)
          /\ callRes' = get_all_markets(callArg)
       \/ /\ prog = "get_all_markets_with_volume"
          /\ callRes' = get_all_markets_with_volume(callArg)
    /\ pc' = "done"
    /\ UNCHANGED <<prog, callArg, listed, padded, upstreamEvents, disk, walk, run,
                   targets, already_processed, queue, i, cur, outcome, fetched, hist>>

\* download_prices.py line 200: the JSONDecodeError of get_all_markets reaches
\* the top of the script, which ends with the traceback
EnumRaise ==
    /\ pc = "start" /\ prog = "get_all_markets"
    /\ get_all_markets_raises(callArg)
    /\ pc' = "crashed"
    /\ UNCHANGED <<prog, callArg, callRes, listed, padded, upstreamEvents, disk,
                   walk, run, targets, already_processed, queue, i, cur, outcome,
                   fetched, hist>>

CallInit == InitFilter \/ InitStore \/ InitEnumerate

CallNext ==
    \/ FilterCall \/ FilterExtend
    \/ StoreScan \/ StoreMark
    \/ EnumCall \/ EnumRaise

CallSpec == CallInit /\ [][CallNext]_vars

\* =================================================================== claims
Pipeline == prog \in {"prices", "trades"}

RECURSIVE SumSeq(_)
SumSeq(q) == IF q = <<>> THEN 0 ELSE Head(q) + SumSeq(Tail(q))

\* C1 (resume correctness): in a run of the prices or of the trades driver a
\* request is issued only for an enumerated target that is not in the done-set
\* scanned at startup, and a run that reaches the end of the driver loop has
\* issued a request for every such target.
C1_ResumeCorrectness ==
    (Pipeline /\ pc # "start") =>
        /\ fetched \subseteq (targets \ already_processed)
        /\ pc = "done" => fetched = targets \ already_processed

\* three targets, one done by its output file, one done by a marker line, and
\* the run fetched exactly the remaining one
C1_Witness ==
    /\ Pipeline /\ pc = "done"
    /\ Cardinality(targets) >= 3
    /\ Cardinality(fetched) = 1
    /\ \E a, b \in targets \cap already_processed :
          a # b /\ HasFile(files, a) /\ b \in SeqRange(noData)

\* C2 (idempotence of re-runs): after a run that reached its end with no fatal
\* fetch error, over unchanged event files, the next run finds every
\* enumerated target in the done-set and issues no request.
C2_Idempotence ==
    (Pipeline /\ prevClean /\ pc # "start") =>
        /\ targets \subseteq already_processed
        /\ fetched = {}

\* C3 (done is monotonic): no step takes an identifier out of the done-set or
\* removes an output file, a legacy file or a marker line, and no request is
\* issued for an identifier that was in the done-set when an earlier run ended
\* or when this run began. (A scan reads files, flat and noData only: a step
\* that leaves them as they are leaves the done-set as it is.)
C3_DoneMonotonic ==
    [][/\ <<files, flat, noData>>' # <<files, flat, noData>> => ScanDone \subseteq ScanDone'
       /\ \A f \in files : \E g \in files' : g.dir = f.dir /\ g.id = f.id
       /\ flat \subseteq flat'
       /\ Len(noData) <= Len(noData') /\ SubSeq(noData', 1, Len(noData)) = noData
       /\ (fetched' \ fetched) \cap everDone' = {}]_vars

\* a later run that skipped a done target and fetched another one
C3_Witness ==
    /\ Pipeline /\ run >= 2 /\ pc = "done"
    /\ everDone \cap targets # {}
    /\ fetched # {}

\* C4 (empty-result classification): a walk whose first page held no record
\* ends with the identifier as the last line of no_data.txt and with no output
\* file for it.
C4_EmptyClassified ==
    (Pipeline /\ outcome = "empty") =>
        /\ noData # <<>> /\ noData[Len(noData)] = cur
        /\ ~HasFile(files, cur)

\* C5 (a fatal fetch error does not mark the target done): after a walk ended
\* by a non-429 HTTP error or a transport failure the identifier is not in the
\* done-set a scan returns.
C5_ErrorNotDone ==
    (Pipeline /\ outcome = "error") => cur \notin ScanDone

\* C6 (crash safety): when the process is killed while a target is in flight,
\* that target is not in the done-set a scan returns.
C6_CrashSafe ==
    (Pipeline /\ pc = "killed") => cur \notin ScanDone

\* C7 (backoff growth): the k-th consecutive 429 response is followed by a
\* sleep of min(2^(k-1), 60) seconds, in prices and in trades.
C7_BackoffGrowth ==
    (Pipeline /\ consec429 >= 1) => lastSleep = Min(2 ^ (consec429 - 1), 60)

\* the page size of the walk of this script
PageLimit == IF prog = "events" THEN LIMIT ELSE TRADES_LIMIT

\* the non-empty pages returned in this walk
Written == SelectSeq(pages, LAMBDA n : n > 0)

\* C8 (pagination termination): in the events and in the trades walk every
\* page before the last returned one is full, no request follows a page of
\* fewer than L records, and the records persisted are those of all pages
\* returned (unless writing raised IOError): events page j is the file of index
\* file_index - (pages written) + j - 1, the trades file holds the sum.
C8_Pagination ==
    (prog \in {"events", "trades"} /\ pc # "start" /\ outcome # "ioerror") =>
        /\ \A j \in 1..(Len(pages) - 1) : pages[j] = PageLimit
        /\ (pages # <<>> /\ pages[Len(pages)] < PageLimit) => pc # "request"
        /\ prog = "events" =>
              \A j \in 1..Len(Written) :
                  \E f \in evFiles : /\ f.index = file_index - Len(Written) + j - 1
                                     /\ f.size = Written[j]
        /\ (prog = "trades" /\ cur # NoId) =>
              \E f \in files : /\ f.id = cur
                               /\ f.recs = SumSeq(pages)
                               /\ f.complete = (outcome \in {"data", "empty"})

\* pages of sizes [100, 100, 37] with L = 100: three requests, 237 records
C8_Witness ==
    /\ prog = "events" /\ pc = "done"
    /\ pages = <<100, 100, 37>>
    /\ SumSeq([j \in 1..3 |-> (CHOOSE f \in evFiles : f.index = j - 1).size]) = 237

\* C9 (failure isolation): when a run ends by itself, every target after the
\* one it stopped at had been in the done-set; no not-done target is left
\* unprocessed.
C9_FailureIsolation ==
    (Pipeline /\ pc \in {"done", "crashed"}) =>
        \A j \in (i + 1)..Len(queue) : queue[j] \in already_processed

\* the last three characters of an identifier, zero padded on the left
LastThree(id) == LET padded3 == <<0, 0, 0>> \o id
                 IN  SubSeq(padded3, Len(padded3) - 2, Len(padded3))

\* the value of id in the base, reduced modulo m after every digit
RECURSIVE HornerMod(_, _, _)
HornerMod(id, base, m) ==
    IF id = <<>> THEN 0
    ELSE (HornerMod(SubSeq(id, 1, Len(id) - 1), base, m) * base + id[Len(id)]) % m

\* three decimal digits
IsBucketName(name) == Len(name) = 3 /\ \A k \in 1..3 : name[k] \in 0..9

\* C10 (sharding): every output file lies in the directory its identifier
\* alone determines, in every run and whatever the directory tree holds: the
\* bucket is three decimal digits, the last three digits of a decimal token id
\* (int(id) mod 1000) and int(id, 16) mod 1000 of a hexadecimal condition id.
C10_Sharding ==
    /\ \A d \in subdirs : d = MiscDir \/ IsBucketName(d.name)
    /\ \A f \in files :
        /\ f.dir \in subdirs
        /\ prog = "prices" => f.dir = [root |-> "prices", name |-> LastThree(f.id)]
        /\ (prog = "trades" /\ \A k \in 1..Len(f.id) : f.id[k] < 16) =>
              f.dir = [root |-> "trades", name |-> Format03(HornerMod(f.id, 16, 1000))]

\* a second run stores a four-digit identifier, next to files of the first run
C10_Witness ==
    /\ run = 2 /\ cur = IdB /\ outcome = "data"
    /\ \E f \in files : f.id = IdB /\ f.complete
    /\ Cardinality(files) >= 2

\* callRes as a set of markets, callArg likewise
Retained == {callRes[j] : j \in 1..Len(callRes)}
Offered == {callArg[j] : j \in 1..Len(callArg)}

Max(a, b) == IF a > b THEN a ELSE b

\* C11 (volume filtering): filter_top_markets with percentile 10% returns, of
\* a non-empty list of n markets, exactly max(1, floor(n / 10)) of its markets,
\* and no market left out has a strictly larger volume than a retained one; of
\* the empty list it returns the empty list.
C11_VolumeFilter ==
    (prog = "filter" /\ pc = "done") =>
        /\ callArg = <<>> => callRes = <<>>
        /\ callArg # <<>> =>
              /\ Len(callRes) = Max(1, Len(callArg) \div 10)
              /\ Cardinality(Retained) = Len(callRes)
              /\ Retained \subseteq Offered
              /\ \A out \in Offered \ Retained : \A kept \in Retained :
                     out.volume <= kept.volume

\* 100 markets with distinct volumes: exactly 10 are returned
C11_Witness ==
    /\ prog = "filter" /\ pc = "done"
    /\ Len(callArg) = 100
    /\ \A j, k \in 1..100 : j # k => callArg[j].volume # callArg[k].volume
    /\ Len(callRes) = 10

\* the three sources of a scan, each read with the script's own parse of a
\* file name: files in shard directories, legacy files under the root, lines
ShardSource ==
    IF prog = "prices" THEN prices_market_ids({prices_output_name(f.id) : f \in files})
    ELSE trades_market_ids({trades_output_name(f.id) : f \in files})

LegacySource ==
    IF prog = "prices" THEN prices_market_ids({prices_output_name(x) : x \in flat})
    ELSE trades_market_ids({TRADES_PREFIX \o x \o JSON_SUFFIX : x \in flat})

MarkerSource == SeqRange(noData)

\* C12 (scan is the union of three sources): in the prices store and in the
\* trades store get_already_processed_markets() returns exactly the
\* identifiers of the output files in shard directories, of the legacy files
\* under the root and of the lines of no_data.txt.
C12_ScanUnion ==
    (prog \in {"prices", "trades"} /\ pc = "done") =>
        callRes = ShardSource \cup LegacySource \cup MarkerSource

\* C13 (naming round trip): the identifier a scan recovers from the name of
\* an output file is the identifier the downloader built the name from, so
\* the identifier of every output file is in the done-set.
C13_NameRoundTrip ==
    Pipeline =>
        \A f \in files :
            /\ prog = "prices" => prices_market_ids({prices_output_name(f.id)}) = {f.id}
            /\ prog = "trades" => trades_market_ids({trades_output_name(f.id)}) = {f.id}
            /\ f.id \in ScanDone

\* the number of positions of queue whose target the driver has taken up
Processed == IF pc \in {"loop", "done"} THEN i - 1 ELSE i

\* C14 (de-duplication): the driver takes up one target per distinct
\* identifier: no identifier is processed twice within one run.
C14_Deduplication ==
    (Pipeline /\ pc # "start") =>
        \A j, k \in 1..Processed : j # k => queue[j] # queue[k]

\* the identifiers an enumerator's result holds
EnumeratedIds ==
    IF prog = "get_all_markets" THEN {callRes[j].key : j \in 1..Len(callRes)}
    ELSE {callRes[j].conditionId : j \in 1..Len(callRes)}

\* the identifiers listed in the event files that decode
ListedIds ==
    LET ms == Flatten(SelectSeq(callArg, LAMBDA file : file.decodes))
    IN  {ms[j].conditionId : j \in 1..Len(ms)}

\* C15 (malformed input artifacts are skipped): an enumerator that meets an
\* event file it cannot decode still returns, with the targets of every other
\* event file.
C15_MalformedSkipped ==
    (prog \in {"get_all_markets", "get_all_markets_with_volume"} /\ pc # "start") =>
        /\ pc = "done"
        /\ EnumeratedIds = ListedIds

\* C16 (mark_no_data is idempotent for the reader): a call of
\* save_no_data_market appends one line and leaves the earlier lines as they
\* are, and a call for an identifier that has a line already leaves the
\* done-set of a scan as it was after the first call.
C16_MarkIdempotent ==
    [][(prog = "prices" /\ noData' # noData) =>
          /\ Len(noData') = Len(noData) + 1
          /\ SubSeq(noData', 1, Len(noData)) = noData
          /\ noData'[Len(noData')] \in SeqRange(noData) =>
                prices_get_already_processed_markets(files', flat', noData')
                    = prices_get_already_processed_markets(files, flat, noData)]_vars

\* the marker file holds the same identifier on two lines, and the scan after
\* the second call returns it once
C16_Witness ==
    /\ prog = "prices" /\ pc = "done" /\ callArg # <<>>
    /\ \E j, k \in 1..Len(noData) : j < k /\ noData[j] = callArg /\ noData[k] = callArg
    /\ callArg \in callRes

\* C17 (backoff bound): in every state of a target's fetch sequence the
\* backoff is an integer from 1 to 60, so is the backoff one more 429 response
\* would leave, and no sleep after a 429 response has been longer than 60
\* seconds.
C17_BackoffBound ==
    Pipeline =>
        /\ backoff \in 1..60
        /\ lastSleep \in 0..60
        /\ consec429 >= 1 => lastSleep >= 1
        /\ prog = "trades" => trades_backoff_after_429(backoff) \in 1..60
        /\ prog = "prices" => prices_backoff_after_429(backoff) \in 1..60

\* the trades walker has doubled its backoff up to the ceiling: 64 was cut to 60
C17_Witness ==
    /\ prog = "trades" /\ pc = "request"
    /\ consec429 >= 6
    /\ backoff = 60

\* C18 (offset progression in the trades page walker): the first request of
\* a target has offset 0; a request is followed by another one of the same
\* walk either after a 429 response, with the same target and offset and
\* nothing written or reported, or after a full page, with the offset 500
\* larger; every full page that is written is followed by such a request; the
\* offset changes in no other step of a walk.
C18_OffsetProgression ==
    [][prog = "trades" =>
          /\ (pc = "loop" /\ pc' = "request") => offset' = 0
          /\ pc = "request" => offset = 500 * Len(pages)
          /\ (pc = "request" /\ pc' = "request") =>
                \/ /\ consec429' = consec429 + 1
                   /\ offset' = offset /\ cur' = cur
                   /\ files' = files /\ noData' = noData
                   /\ total' = total /\ pages' = pages
                   /\ outcome' = outcome /\ runHadError' = runHadError
                \/ /\ pages' = Append(pages, 500)
                   /\ offset' = offset + 500 /\ cur' = cur
          /\ (pc = "request" /\ pages' = Append(pages, 500) /\ outcome' # "ioerror") =>
                pc' = "request" /\ offset' = offset + 500
          /\ (pc = "request" /\ pc' # "request") => offset' = offset]_vars

\* the request at offset 1000, after two full pages, was answered 429
C18_Witness ==
    /\ prog = "trades" /\ pc = "request"
    /\ pages = <<500, 500>> /\ offset = 1000
    /\ consec429 >= 1

\* C20 (append-only progress store): a step changes nothing in the output
\* directory but the output file of the target being processed and, when the
\* target has no data, one line appended to no_data.txt; the files of other
\* targets, the legacy files and the earlier marker lines stay as they are, and
\* an events file, once written, is never written again.
C20_AppendOnly ==
    [][/\ \A f \in files : f.id # cur' => f \in files'
       /\ \A g \in files' : g \notin files => g.id = cur'
       /\ flat' = flat
       /\ \/ noData' = noData
          \/ noData' = Append(noData, cur') /\ outcome' = "empty"
       /\ \A f \in evFiles : f \in evFiles']_vars

\* a later run wrote the file of one target next to the complete file of
\* another target and to a marker line
C20_Witness ==
    /\ Pipeline /\ run >= 2 /\ outcome = "data" /\ noData # <<>>
    /\ \E f, g \in files : f.id = cur /\ g.id # cur /\ f.complete /\ g.complete

\* the process has ended: the script ran to its last line, or an exception
\* nothing catches ended it
Ended == pc \in {"done", "crashed"}

\* C19: termination.  When every request is eventually answered by a response
\* that is not 429 and the upstream holds finitely many records (MaxPages full
\* pages of trades, upstreamEvents events), a page walk that was begun reaches
\* an outcome (data exhausted, empty, error) or the process ends, and a run
\* that was started ends.
C19_Termination ==
    /\ (pc \in {"request", "write", "dump"}) ~> (outcome # "none" \/ Ended)
    /\ (pc \in {"start", "loop"}) ~> Ended

\* a trades run over two targets ended after a walk of MaxPages full pages
\* and a last short one
C19_Witness ==
    /\ prog = "trades" /\ pc = "done" /\ outcome = "data"
    /\ Len(pages) = MaxPages + 1
    /\ Len(queue) = 2 /\ i = 3

\* the output stream of the current trades target
Stream(fs) == {f \in fs : f.id = cur /\ f.dir = trades_get_subdirectory_for_market(cur)}

\* C21 (incremental streaming of trades): when the request for page k+1 of a
\* target is issued, the target's output stream holds all records of pages
\* 1..k and is still open; while the walk goes on the stream only grows, each
\* page being added after the records written before it, so no record of an
\* earlier page is held back.
C21_IncrementalStream ==
    [][(prog = "trades" /\ pc' = "request") =>
          /\ \E f \in Stream(files)' : /\ f.recs = SumSeq(pages')
                                      /\ f.recs = TRADES_LIMIT * Len(pages')
                                      /\ ~f.complete
          /\ pc = "request" =>
                \A f \in Stream(files) : \E g \in Stream(files)' :
                    g.recs = f.recs + (IF pages' = pages THEN 0 ELSE pages'[Len(pages')])]_vars

\* the request for the third page is about to be issued: 1000 records of the
\* first two pages are in the stream
C21_Witness ==
    /\ prog = "trades" /\ pc = "request"
    /\ pages = <<TRADES_LIMIT, TRADES_LIMIT>>
    /\ \E f \in Stream(files) : f.recs = 2 * TRADES_LIMIT /\ ~f.complete

\* C22 (events resume point): once line 33 has run, offset = file_index * 100
\* and file_index is one more than the highest index of the existing files (0
\* when there is none); the file of index k holds the page at offset 100 * k,
\* there is one file per index, and no request is issued for a stored page.  A
\* failed request writes no file, and a run starts at 100 times the number of
\* files stored, which is the offset of the request that failed.
C22_EventsResume ==
    [][(prog = "events" /\ pc' # "start") =>
          /\ offset' = file_index' * LIMIT
          /\ file_index' = get_current_state(evFiles').file_index
          /\ offset' = get_current_state(evFiles').offset
          /\ \A f \in evFiles' : /\ f.offset = LIMIT * f.index
                                 /\ f.size = EventsPageAt(f.offset)
                                 /\ f.size > 0
          /\ \A f, g \in evFiles' : f.index = g.index => f = g
          /\ pc' = "request" => \A f \in evFiles' : f.offset # offset'
          /\ outcome' = "error" => evFiles' = evFiles
          /\ pc = "start" => offset' = LIMIT * Cardinality(evFiles)]_vars

\* a run that followed an interrupted one started at offset 200 and stored the
\* last page, of 37 events, as the third file
C22_Witness ==
    /\ prog = "events" /\ run = 2 /\ ~prevClean /\ pc = "done"
    /\ pages = <<37>> /\ offset = 3 * LIMIT
    /\ {f.offset : f \in evFiles} = {0, LIMIT, 2 * LIMIT}

\* the Shard Router of the running script applied to an identifier
Router(id) ==
    IF prog = "prices" THEN prices_get_subdirectory_for_market(id)
    ELSE trades_get_subdirectory_for_market(id)

\* C23 (sharding is total): the Shard Router returns a directory for every
\* identifier the driver hands it, the fallback bucket for one that does not
\* parse as a number, and raises no error.
C23_ShardingTotal ==
    (Pipeline /\ cur # NoId) =>
        /\ Router(cur) # Raised
        /\ Router(cur) \in subdirs
        /\ (ParseInt(cur, IF prog = "prices" THEN 10 ELSE 16) = ValueError) =>
              ~IsBucketName(Router(cur).name)

\* the number of marker lines of an identifier in no_data.txt
MarkerLines(id) == Cardinality({k \in 1..Len(noData) : noData[k] = id})

\* C24 (exclusive outcome in the prices store): from an empty store, after any
\* sequence of runs no identifier has both an output file and a marker line,
\* none has more than one marker line, and the target of a fetch that failed
\* has neither.
C24_ExclusiveOutcome ==
    (prog = "prices" /\ flat = {}) =>
        /\ \A f \in files : MarkerLines(f.id) = 0
        /\ \A k \in 1..Len(noData) : MarkerLines(noData[k]) = 1
        /\ outcome = "error" => ~HasFile(files, cur) /\ MarkerLines(cur) = 0

\* the identifiers of the markets of the event files, read in sorted file name
\* order
ListedOrder ==
    LET ms == Flatten(eventFiles)
    IN  [j \in 1..Len(ms) |-> ms[j].conditionId]

\* the place of the first occurrence of an identifier in that reading
FirstOccurrence(id) ==
    CHOOSE j \in 1..Len(ListedOrder) :
        /\ ListedOrder[j] = id
        /\ \A m \in 1..(j - 1) : ListedOrder[m] # id

\* C25 (deterministic processing order): the driver takes up the targets in
\* the order of the first occurrence of their identifiers in the event files
\* read in lexicographic file name order (prices and trades).
C25_ProcessingOrder ==
    (Pipeline /\ pc # "start") =>
        \A j, k \in 1..Len(queue) :
            (j < k /\ queue[j] # queue[k]) =>
                FirstOccurrence(queue[j]) < FirstOccurrence(queue[k])

====
